---- MODULE Spec2Model ----
(***************************************************************************)
(* Model of the idread stream decoder and its collectors                   *)
(* (src/data_api2/idread_util.py).                                         *)
(*                                                                         *)
(* The byte source is a sequence of bytes with a read position.  decode()  *)
(* is modelled statement block by statement block: one action per branch   *)
(* of the frame loop, one per iteration of the channel loop, one for the   *)
(* code after the channel loop.  The collectors are modelled by one action *)
(* per method, and so is the query client                                  *)
(* (src/data_api/data_api_client.py).                                      *)
(***************************************************************************)
EXTENDS Integers, Sequences, FiniteSets, TLC

VARIABLES
    \* ---- decode(bytes, collector_function) ----
    frames,             \* the frames the sender wrote (input description)
    stream,             \* bytes: the content of the byte source
    pos,                \* bytes: its read position
    pc,                 \* position in decode: read_frame, value_loop, done, error
    err,                \* the exception decode ended with ("" when none)
    size,               \* local size
    id,                 \* local id
    channels,           \* local channels: None or Some(list of descriptors)
    channel,            \* local channel (loop variable): unbound or Some(dict)
    idx,                \* index of the next element of `for channel in channels`
    size_counter,       \* local size_counter
    frame_start,        \* read position at the top of the current loop iteration
    collector_function, \* TRUE when a collector function was passed
    collected,          \* the calls collector_function received, in order
    warnings,           \* the records logged at WARNING level, in order
    \* ---- MappingCollector ----
    mc_calls,           \* the add_data calls made so far (arguments, in order)
    number_of_channels,
    event_fields,
    backend_data,
    channel_count,
    tmp_array,
    \* ---- DictionaryCollector ----
    dict_calls,         \* the add_data calls made so far (arguments, in order)
    dict_event_fields,  \* self.event_fields
    dict_backend_data,  \* self.backend_data: backend -> channel -> data list,
                        \* both levels in insertion order
    \* ---- HDF5Collector ----
    file,               \* self.file: None, or Some(name of the h5py file)
    datasets,           \* self.datasets: dataset name -> Dataset
    h5files,            \* the h5py files: name -> [open, shape: dataset -> length]
    h5_appends,         \* number of append_dataset calls made per dataset name
    h5_resizes,         \* number of resize calls append_dataset made per dataset
    h5_calls,           \* the add_data calls made so far (arguments, in order)
    h5_raised,          \* the exception the last call ended with ("" when none)
    \* ---- DataApiClient (src/data_api/data_api_client.py) ----
    class_aggregation,  \* DataApiClient._aggregation, the dict of the class
    clients,            \* the instances: name -> [is_local, aggregation], the
                        \* instance's own _aggregation (None while it has none)
    query               \* the last get_data call: None, or Some(arguments and
                        \* outcome)

decodeVars == <<frames, stream, pos, pc, err, size, id, channels, channel, idx,
                size_counter, frame_start, collector_function, collected, warnings>>
mappingVars == <<mc_calls, number_of_channels, event_fields, backend_data,
                 channel_count, tmp_array>>
dictVars == <<dict_calls, dict_event_fields, dict_backend_data>>
h5Vars == <<file, datasets, h5files, h5_appends, h5_resizes, h5_calls, h5_raised>>
clientVars == <<class_aggregation, clients, query>>
vars == <<decodeVars, mappingVars, dictVars, h5Vars, clientVars>>

(***************************************************************************)
(* Python values.  None is the empty tuple and a present value x is <<x>>, *)
(* so that `x is None` can be asked of any value.                          *)
(***************************************************************************)
None == <<>>
Some(x) == <<x>>
Get(o) == o[1]

(***************************************************************************)
(* Bounds of the model.                                                    *)
(***************************************************************************)
MaxFrames == 3          \* frames per input stream
MaxFramesNoCollector == 2  \* frames per input stream decoded without a collector
MaxCut == 12            \* bytes a stream may be cut short by
MaxCutFrames == 2       \* frames per stream that is cut short
HugeInt == 4194304      \* integers are exact below this magnitude (2^22)
MaxCalls == 6           \* MappingCollector: add_data calls
MaxN == 3               \* MappingCollector: number_of_channels
MaxAppends == 1500      \* HDF5Collector: append_dataset calls on the first dataset
MaxAppendsOther == 2    \* HDF5Collector: append_dataset calls on any other dataset

(***************************************************************************)
(* struct.pack / struct.unpack of signed integers.  Bytes are 0..255.      *)
(* Unpacked magnitudes at or above HugeInt are reported as HugeInt: every  *)
(* stream of the model is far shorter, and decode uses such a number only  *)
(* as a read length, in the size comparison, or hands it on.               *)
(***************************************************************************)
Min(a, b) == IF a < b THEN a ELSE b
Max(a, b) == IF a > b THEN a ELSE b

Reverse(s) == [i \in 1..Len(s) |-> s[Len(s) + 1 - i]]

RECURSIVE PackLE(_, _)
PackLE(m, w) == IF w = 0 THEN <<>> ELSE <<m % 256>> \o PackLE(m \div 256, w - 1)

\* struct.pack of n in w bytes, two's complement, big- or little-endian
Pack(n, w, big) ==
    LET le == IF n >= 0 THEN PackLE(n, w)
              ELSE [i \in 1..w |-> 255 - PackLE(-n - 1, w)[i]]
    IN  IF big THEN Reverse(le) ELSE le

RECURSIVE Horner(_, _)
Horner(bs, acc) ==
    IF bs = <<>> THEN acc
    ELSE Horner(Tail(bs), Min(acc * 256 + Head(bs), HugeInt))

\* struct.unpack of a signed integer from exactly Len(bs) bytes
Unpack(bs, big) ==
    LET be == IF big THEN bs ELSE Reverse(bs)
    IN  IF be[1] >= 128
        THEN -(1 + Horner([i \in 1..Len(be) |-> 255 - be[i]], 0))
        ELSE Horner(be, 0)

RECURSIVE Concat(_)
Concat(ss) == IF ss = <<>> THEN <<>> ELSE Head(ss) \o Concat(Tail(ss))

Zeros(n) == [i \in 1..n |-> 0]

(***************************************************************************)
(* The wire format, as the sender writes it.                               *)
(*                                                                         *)
(* The JSON document of a header is abstracted to one byte per channel     *)
(* object between an opening and a closing brace; JsonChannel gives the    *)
(* channel object a byte stands for (a missing key is None).               *)
(***************************************************************************)
JsonOpen == <<123>>
JsonClose == <<125>>
Padding(n) == [i \in 1..n |-> 238]

\* the type strings of the channels T: the names decode knows, and others
TypeNames ==
    <<"float64", "float", "uint8", "int8", "uint16", "int16", "uint32", "int32",
      "uint64", "int64", "float32", "int", "string", "bool", "uint", "double">>

\* a channel T for each type string, little-endian (even code) or big-endian
TypeCodes == 70..(69 + 2 * Len(TypeNames))

ChannelCodes == {65, 66, 67, 68} \cup TypeCodes

JsonChannel(code) ==
    CASE code = 65 -> [name |-> "A", backend |-> "sf-databuffer", type |-> Some("int8"),
                       encoding |-> None, compression |-> None, shape |-> None]
      [] code = 66 -> [name |-> "B", backend |-> "sf-archiver", type |-> Some("int16"),
                       encoding |-> Some("big"), compression |-> None, shape |-> None]
      [] code = 67 -> [name |-> "C", backend |-> "sf-databuffer", type |-> Some("string"),
                       encoding |-> None, compression |-> None, shape |-> None]
      [] code = 68 -> [name |-> "D", backend |-> "sf-databuffer", type |-> None,
                       encoding |-> Some("little"), compression |-> None, shape |-> None]
      [] OTHER     -> [name |-> "T", backend |-> "sf-databuffer",
                       type |-> Some(TypeNames[((code - 70) \div 2) + 1]),
                       encoding |-> IF code % 2 = 1 THEN Some("big") ELSE None,
                       compression |-> None, shape |-> None]

\* what the sender writes for one channel of a value frame
GenBig(code) == JsonChannel(code).encoding = Some("big")
WireSize(t) ==
    CASE t \in {Some("uint8"), Some("int8")}                      -> 1
      [] t \in {Some("uint16"), Some("int16")}                    -> 2
      [] t \in {Some("uint32"), Some("int32"), Some("float32")}   -> 4
      [] OTHER                                                    -> 8
GenElemSize(code) == WireSize(JsonChannel(code).type)
GenEvent == [ioc_time |-> 7, pulse_id |-> 5, global_time |-> 9,
             status |-> 1, severity |-> 2, value |-> 3]

EncodeEvent(e) ==
    LET big == GenBig(e.chan) IN
    IF e.kind = "null" THEN Pack(0, 4, big)
    ELSE IF e.kind = "short" THEN Pack(10, 4, big) \o Padding(10)
    ELSE Pack(26 + GenElemSize(e.chan), 4, big)
         \o Pack(GenEvent.ioc_time, 8, big) \o Pack(GenEvent.pulse_id, 8, big)
         \o Pack(GenEvent.global_time, 8, big)
         \o Pack(GenEvent.status, 1, big) \o Pack(GenEvent.severity, 1, big)
         \o Pack(GenEvent.value, GenElemSize(e.chan), big)

\* the bytes of a frame after its kind identifier, padding excluded.  A
\* compressed header carries the length of the document (8 bytes), the block
\* size (4 bytes) and the compressed block
FrameContent(f) ==
    CASE f.id = 1 /\ f.comp = 1 ->
             Zeros(8) \o <<f.comp>> \o Pack(2 + Len(f.chans), 8, TRUE)
             \o Pack(0, 4, TRUE) \o f.chans
      [] f.id = 1 -> Zeros(8) \o <<f.comp>> \o JsonOpen \o f.chans \o JsonClose
      [] f.id = 0 -> Concat([i \in 1..Len(f.events) |-> EncodeEvent(f.events[i])])
      [] OTHER    -> Zeros(f.body)

\* the declared size: everything after the length field, plus delta
FrameSize(f) == 2 + Len(FrameContent(f)) + f.delta

EncodeFrame(f) ==
    Pack(FrameSize(f), 8, TRUE) \o Pack(f.id, 2, TRUE) \o FrameContent(f)
    \o Padding(Max(f.delta, 0))

EncodeAll(fs) == Concat([i \in 1..Len(fs) |-> EncodeFrame(fs[i])])


(***************************************************************************)
(* The byte source: bytes.read(n).                                         *)
(***************************************************************************)
\* bytes.read(n) at position p, n >= 0: n bytes, fewer at the end of the stream
Read(p, n) == SubSeq(stream, p + 1, Min(p + n, Len(stream)))

\* the position after bytes.read(n) at position p, n >= 0
After(p, n) == Min(p + n, Len(stream))

\* bytes.read(n) with n < 0 reads to the end of the stream on some byte
\* sources (io.BytesIO, files) and raises ValueError on others
NegativeRead == {"all", "raise"}

\* the outcomes of bytes.read(n): one for n >= 0
ReadOutcomes(n) == IF n < 0 THEN NegativeRead ELSE {"all"}

\* bytes.read(n) for any n: [err, data, pos]
ReadAny(p, n, neg) ==
    IF n >= 0 THEN [err |-> "", data |-> Read(p, n), pos |-> After(p, n)]
    ELSE IF neg = "all"
         THEN [err |-> "", data |-> Read(p, Len(stream)), pos |-> Len(stream)]
         ELSE [err |-> "ValueError", data |-> <<>>, pos |-> p]

(***************************************************************************)
(* decode: the header frame (lines 268-318) and _read_header.              *)
(***************************************************************************)
\* json.loads(raw_data.decode()): the list under 'channels', or a failure
JsonLoads(raw) ==
    IF /\ Len(raw) >= 2
       /\ <<raw[1]>> = JsonOpen
       /\ <<raw[Len(raw)]>> = JsonClose
       /\ \A i \in 2..(Len(raw) - 1) : raw[i] \in ChannelCodes
    THEN [err |-> "", channels |-> [i \in 1..(Len(raw) - 2) |-> JsonChannel(raw[i + 1])]]
    ELSE [err |-> "JSONDecodeError", channels |-> <<>>]

\* bitshuffle.decompress_lz4 is a library outside this repository: what it
\* yields for a compressed header is any document, or a failure
\* (None: the library rejects the block)
HeaderLib == {None, Some(<<>>), Some(<<65>>)}
EventLib == {"ok", "corrupt"}

\* a slip at lines 401-413: whatever is not 1 is taken as uncompressed
HeaderCompressionLenient(comp) ==
    IF comp = <<1>> THEN "bitshuffle_lz4" ELSE "none"

\* lines 401-413: the branch taken for the compression byte
HeaderCompression(comp) ==
    IF comp = <<0>> THEN "none"
    ELSE IF comp = <<1>> THEN "bitshuffle_lz4"
    ELSE "unsupported"

\* _read_header(byte_array, size) at position p: [err, pos, channels]
\* `lib` is the outcome of the decompression library, used for compression 1
ReadHeaderAt(p, sz, neg, lib) ==
    LET hash == Read(p, 8)
        comp == Read(After(p, 8), 1)
        raw  == ReadAny(After(p, 9), sz - 2 - 8 - 1, neg)
        fail(e, q) == [err |-> e, pos |-> q, channels |-> <<>>]
        how  == HeaderCompression(comp)
    IN  IF Len(hash) \notin {0, 8} THEN fail("ValueError", After(p, 8))
        ELSE IF raw.err # "" THEN fail(raw.err, raw.pos)
        ELSE IF how = "none"
             THEN LET doc == JsonLoads(raw.data)
                  IN  [err |-> doc.err, pos |-> raw.pos, channels |-> doc.channels]
        ELSE IF how = "bitshuffle_lz4"
             THEN IF Len(raw.data) < 12 THEN fail("struct.error", raw.pos)
                  ELSE IF lib = None THEN fail("DecompressError", raw.pos)
                  ELSE [err |-> "", pos |-> raw.pos,
                        channels |-> [i \in 1..Len(Get(lib)) |-> JsonChannel(Get(lib)[i])]]
        ELSE fail("RuntimeError: Compression not supported", raw.pos)

\* lines 276-298: the size, dtype and struct format of a channel type
Unsupported == [size |-> 0, dtype |-> "", stype |-> ""]
TypeTable(t) ==
    CASE t = None \/ t = Some("float64") \/ t = Some("float")
                            -> [size |-> 8, dtype |-> "f8", stype |-> "d"]
      [] t = Some("uint8")  -> [size |-> 1, dtype |-> "u1", stype |-> "B"]
      [] t = Some("int8")   -> [size |-> 1, dtype |-> "i1", stype |-> "b"]
      [] t = Some("uint16") -> [size |-> 2, dtype |-> "u2", stype |-> "H"]
      [] t = Some("int16")  -> [size |-> 2, dtype |-> "i2", stype |-> "h"]
      [] t = Some("uint32") -> [size |-> 4, dtype |-> "u4", stype |-> "I"]
      [] t = Some("int32")  -> [size |-> 4, dtype |-> "i4", stype |-> "i"]
      [] t = Some("uint64") -> [size |-> 8, dtype |-> "u8", stype |-> "Q"]
      [] t = Some("int64") \/ t = Some("int")
                            -> [size |-> 8, dtype |-> "i8", stype |-> "q"]
      [] t = Some("float32") -> [size |-> 4, dtype |-> "f4", stype |-> "f"]
      [] OTHER              -> Unsupported

\* a slip in the else branch of line 296: an unknown type taken as the default
TypeInfoDefaulting(t) ==
    IF TypeTable(t) = Unsupported THEN TypeTable(None) ELSE TypeTable(t)

\* a slip at line 283: the size of the branch below it
TypeInfoCopied(t) ==
    IF t = Some("uint16") THEN [TypeTable(t) EXCEPT !.size = 4] ELSE TypeTable(t)

\* lines 276-298: the branch taken for channel["type"]; Unsupported raises
TypeInfo(t) == TypeTable(t)

\* lines 274-316: the descriptor n_channel built from a channel object
Descriptor(ch) ==
    LET encoding == IF ch.encoding = Some("big") THEN ">" ELSE ""
        info == TypeInfo(ch.type)
    IN  [size |-> info.size, dtype |-> <<encoding, info.dtype>>,
         stype |-> <<encoding, info.stype>>, encoding |-> encoding,
         compression |-> ch.compression,
         shape |-> IF ch.shape # None THEN Reverse(Get(ch.shape)) ELSE <<1>>,
         name |-> ch.name, backend |-> ch.backend]

\* index of the first channel of unsupported type, 0 when there is none
FirstUnsupported(chs) ==
    LET bad == {i \in 1..Len(chs) : TypeInfo(chs[i].type) = Unsupported}
    IN  IF bad = {} THEN 0 ELSE CHOOSE i \in bad : \A j \in bad : i <= j

(***************************************************************************)
(* decode: one event of a value frame (lines 337-379).                     *)
(***************************************************************************)
Product(shape) ==
    LET RECURSIVE P(_)
        P(sh) == IF sh = <<>> THEN 1 ELSE Head(sh) * P(Tail(sh))
    IN  P(shape)

\* lines 357-377: the value decoded from raw_bytes, or a failure.
\* Integer types are decoded; the bits of a float are kept as they are.
\* `lib` is the outcome of the decompression library.
DecodeData(c, raw, lib) ==
    LET big == c.encoding = ">"
        one == IF c.stype[2] \in {"d", "f"} THEN [float_bits |-> raw]
               ELSE IF c.stype[2] \in {"B", "H", "I", "Q"}
                    THEN Horner(IF big THEN raw ELSE Reverse(raw), 0)
               ELSE Unpack(raw, big)
    IN  IF c.compression # None
        THEN IF Len(raw) < 12 THEN [err |-> "struct.error", data |-> None]
             ELSE IF lib = "corrupt" THEN [err |-> "DecompressError", data |-> None]
             ELSE [err |-> "", data |-> Some([decompressed |-> SubSeq(raw, 13, Len(raw))])]
        ELSE IF c.shape = <<1>>
             THEN IF Len(raw) # c.size THEN [err |-> "struct.error", data |-> None]
                  ELSE [err |-> "", data |-> Some(one)]
        ELSE IF Len(c.shape) = 1
             THEN IF Len(raw) # c.size THEN [err |-> "struct.error", data |-> None]
                  ELSE [err |-> "", data |-> Some(<<one>>)]
        ELSE IF Len(raw) % c.size # 0 \/ Len(raw) \div c.size # Product(c.shape)
             THEN [err |-> "ValueError", data |-> None]
             ELSE [err |-> "", data |-> Some([array_bytes |-> raw, shape |-> c.shape])]

\* a slip at lines 339-344: one field of an absent event left at a value
NullEventWithStatus ==
    [event_size |-> 0, data |-> None, pulse_id |-> None, global_time |-> None,
     ioc_time |-> None, status |-> Some(0), severity |-> None]

\* a slip at lines 339-344: pulse_id keeps a value of the channel before
NullEventStalePulse ==
    [event_size |-> 0, data |-> None, pulse_id |-> Some(5), global_time |-> None,
     ioc_time |-> None, status |-> None, severity |-> None]

\* lines 338-344: the event of a channel whose event_size is 0
NullEvent == [event_size |-> 0, data |-> None, pulse_id |-> None, global_time |-> None,
              ioc_time |-> None, status |-> None, severity |-> None]

\* line 337: event_size as read at position p (0 when it cannot be read)
EventSizeAt(c, p) ==
    IF Len(Read(p, 4)) < 4 THEN 0 ELSE Unpack(Read(p, 4), c.encoding = ">")

\* lines 337-377 for descriptor c at position p: [err, pos, ev]
ReadEvent(c, p, neg, lib) ==
    LET big  == c.encoding = ">"
        b4   == Read(p, 4)
        p1   == After(p, 4)
        es   == Unpack(b4, big)
        meta == Read(p1, 26)
        p2   == After(p1, 26)
        raw  == ReadAny(p2, es - 26, neg)
        val  == DecodeData(c, raw.data, lib)
        fail(e, q) == [err |-> e, pos |-> q, ev |-> NullEvent]
    IN  IF Len(b4) < 4 THEN fail("struct.error", p1)
        ELSE IF es = 0 THEN [err |-> "", pos |-> p1, ev |-> NullEvent]
        ELSE IF Len(meta) < 26 THEN fail("struct.error", p2)
        ELSE IF raw.err # "" THEN fail(raw.err, raw.pos)
        ELSE IF val.err # "" THEN fail(val.err, raw.pos)
        ELSE [err |-> "", pos |-> raw.pos,
              ev |-> [event_size  |-> es,
                      data        |-> val.data,
                      ioc_time    |-> Some(Unpack(SubSeq(meta, 1, 8), big)),
                      pulse_id    |-> Some(Unpack(SubSeq(meta, 9, 16), big)),
                      global_time |-> Some(Unpack(SubSeq(meta, 17, 24), big)),
                      status      |-> Some(Unpack(SubSeq(meta, 25, 25), big)),
                      severity    |-> Some(Unpack(SubSeq(meta, 26, 26), big))]]

\* a slip at line 382: the first two arguments in the wrong order
CollectorCallSwapped(c, ev) ==
    [channel_name |-> c.backend, backend |-> c.name, value |-> ev.data,
     pulse_id |-> ev.pulse_id, global_time |-> ev.global_time,
     ioc_time |-> ev.ioc_time, status |-> ev.status, severity |-> ev.severity]

\* line 382: the arguments collector_function is called with
CollectorCall(c, ev) ==
    [channel_name |-> c.name, backend |-> c.backend, value |-> ev.data,
     pulse_id |-> ev.pulse_id, global_time |-> ev.global_time,
     ioc_time |-> ev.ioc_time, status |-> ev.status, severity |-> ev.severity]

(***************************************************************************)
(* decode: the actions.                                                    *)
(***************************************************************************)
mapH5Unchanged == UNCHANGED <<mappingVars, dictVars, h5Vars, clientVars>>
inputUnchanged == UNCHANGED <<frames, stream, collector_function>>

\* the 8 bytes read at line 255 and the 2 bytes read at line 266
SizeBytes == Read(pos, 8)
IdBytes == Read(After(pos, 8), 2)
NextSize == Unpack(SizeBytes, TRUE)
NextId == Unpack(IdBytes, TRUE)
FrameHeadRead == pc = "read_frame" /\ Len(SizeBytes) = 8 /\ Len(IdBytes) = 2

\* decode raises: the exception leaves the function
Raise(e, p) ==
    /\ pc' = "error"
    /\ err' = e
    /\ pos' = p

\* lines 255-258: nothing left to read where a frame starts
EndOfStream ==
    /\ pc = "read_frame"
    /\ SizeBytes = <<>>
    /\ pc' = "done"
    /\ frame_start' = pos
    /\ UNCHANGED <<pos, err, size, id, channels, channel, idx, size_counter,
                   collected, warnings>>
    /\ inputUnchanged /\ mapH5Unchanged

\* lines 262, 266: struct.unpack of fewer than 8 or 2 bytes raises struct.error
TruncatedFrameHead ==
    /\ pc = "read_frame"
    /\ SizeBytes # <<>>
    /\ Len(SizeBytes) < 8 \/ Len(IdBytes) < 2
    /\ Raise("struct.error", Len(stream))
    /\ size' = IF Len(SizeBytes) = 8 THEN NextSize ELSE size
    /\ frame_start' = pos
    /\ UNCHANGED <<id, channels, channel, idx, size_counter, collected, warnings>>
    /\ inputUnchanged /\ mapH5Unchanged

\* a slip at line 272: the list is not emptied before the loop fills it
InstallChannelsKept(old, new) ==
    IF old = None THEN Some(new) ELSE Some(Get(old) \o new)

\* lines 272-316: channels after a header whose descriptors are `new`
InstallChannels(old, new) == Some(new)

\* lines 268-318: a header frame
ReadHeader(neg, lib) ==
    /\ FrameHeadRead
    /\ NextId = 1
    /\ neg \in ReadOutcomes(NextSize - 2 - 8 - 1)
    /\ lib \in (IF Read(After(pos, 18), 1) = <<1>> THEN HeaderLib ELSE {None})
    /\ LET h   == ReadHeaderAt(After(pos, 10), NextSize, neg, lib)
           bad == FirstUnsupported(h.channels)
           n   == Len(h.channels)
       IN  /\ size' = NextSize
           /\ id' = NextId
           /\ frame_start' = pos
           /\ IF h.err # ""
              THEN /\ Raise(h.err, h.pos)
                   /\ UNCHANGED <<channels, channel>>
              ELSE IF bad # 0
              THEN /\ Raise("RuntimeError: Unsupported data type", h.pos)
                   /\ channels' = InstallChannels(channels,
                                      [i \in 1..(bad - 1) |-> Descriptor(h.channels[i])])
                   /\ channel' = Some(h.channels[bad])
              ELSE /\ pc' = "read_frame"
                   /\ pos' = h.pos
                   /\ err' = err
                   /\ channels' = InstallChannels(channels,
                                      [i \in 1..n |-> Descriptor(h.channels[i])])
                   /\ channel' = IF n = 0 THEN channel ELSE Some(h.channels[n])
    /\ UNCHANGED <<idx, size_counter, collected, warnings>>
    /\ inputUnchanged /\ mapH5Unchanged

\* line 322, second operand: `channel == []`.  channel is only ever bound to a
\* dict (a channel object of the header or a descriptor), which equals no list
ChannelEqualsEmptyList == FALSE

\* line 322 evaluates `channel` although no loop has bound it yet
ValuesUnbound ==
    /\ FrameHeadRead
    /\ NextId = 0
    /\ channels # None
    /\ channel = None
    /\ Raise("UnboundLocalError", After(pos, 10))
    /\ size' = NextSize
    /\ id' = NextId
    /\ frame_start' = pos
    /\ UNCHANGED <<channels, channel, idx, size_counter, collected, warnings>>
    /\ inputUnchanged /\ mapH5Unchanged

\* line 323: the number of bytes dropped
DropLength(sz) == sz - 2

\* lines 322-324: a value frame without channels is dropped
SkipValues(neg) ==
    /\ FrameHeadRead
    /\ NextId = 0
    /\ neg \in ReadOutcomes(DropLength(NextSize))
    /\ channels = None \/ (channel # None /\ ChannelEqualsEmptyList)
    /\ LET r == ReadAny(After(pos, 10), DropLength(NextSize), neg)
       IN  IF r.err # ""
           THEN Raise(r.err, r.pos) /\ UNCHANGED warnings
           ELSE /\ pc' = "read_frame"
                /\ pos' = r.pos
                /\ err' = err
                /\ warnings' = Append(warnings, "No channels specified")
    /\ size' = NextSize
    /\ id' = NextId
    /\ frame_start' = pos
    /\ UNCHANGED <<channels, channel, idx, size_counter, collected>>
    /\ inputUnchanged /\ mapH5Unchanged

\* lines 326-328: a value frame with channels; the channel loop starts
BeginValues ==
    /\ FrameHeadRead
    /\ NextId = 0
    /\ channels # None
    /\ channel # None
    /\ ~ChannelEqualsEmptyList
    /\ pc' = "value_loop"
    /\ pos' = After(pos, 10)
    /\ size' = NextSize
    /\ id' = NextId
    /\ frame_start' = pos
    /\ size_counter' = 0
    /\ idx' = 1
    /\ UNCHANGED <<err, channels, channel, collected, warnings>>
    /\ inputUnchanged /\ mapH5Unchanged

\* a slip at line 379: the kind identifier left out of the count
CountEventNoId(counter, event_size) == counter + (4 + event_size)

\* line 379
CountEvent(counter, event_size) == counter + (2 + 4 + event_size)

\* lines 328-382: one iteration of `for channel in channels`
DecodeEvent(neg, lib) ==
    /\ pc = "value_loop"
    /\ idx <= Len(Get(channels))
    /\ LET c == Get(channels)[idx]
           r == ReadEvent(c, pos, neg, lib)
       IN  /\ neg \in ReadOutcomes(EventSizeAt(c, pos) - 26)
           /\ lib \in (IF c.compression # None THEN EventLib ELSE {"ok"})
           /\ channel' = Some(c)
           /\ IF r.err # ""
              THEN /\ Raise(r.err, r.pos)
                   /\ UNCHANGED <<idx, size_counter, collected>>
              ELSE /\ pc' = pc
                   /\ err' = err
                   /\ pos' = r.pos
                   /\ idx' = idx + 1
                   /\ size_counter' = CountEvent(size_counter, r.ev.event_size)
                   /\ collected' = IF collector_function
                                   THEN Append(collected, CollectorCall(c, r.ev))
                                   ELSE collected
    /\ UNCHANGED <<size, id, channels, frame_start, warnings>>
    /\ inputUnchanged /\ mapH5Unchanged

\* lines 384-387: after the channel loop
FinishValues ==
    /\ pc = "value_loop"
    /\ idx > Len(Get(channels))
    /\ LET remaining_bytes == size - size_counter
       IN  IF remaining_bytes > 0
           THEN /\ warnings' = Append(warnings, "Remaining bytes")
                /\ pos' = After(pos, remaining_bytes)
           ELSE UNCHANGED <<warnings, pos>>
    /\ pc' = "read_frame"
    /\ UNCHANGED <<err, size, id, channels, channel, idx, size_counter, frame_start,
                   collected>>
    /\ inputUnchanged /\ mapH5Unchanged

\* a slip at line 392: the two bytes of the kind counted as still unread
SkipLengthWholeSize(sz) == sz

\* line 392: the number of bytes dropped
SkipLength(sz) == sz - 2

\* lines 389-392: a frame of any other kind is dropped
SkipUnknown(neg) ==
    /\ FrameHeadRead
    /\ NextId \notin {0, 1}
    /\ neg \in ReadOutcomes(SkipLength(NextSize))
    /\ warnings' = Append(warnings, "id not supported")
    /\ LET r == ReadAny(After(pos, 10), SkipLength(NextSize), neg)
       IN  IF r.err # ""
           THEN Raise(r.err, r.pos)
           ELSE pc' = "read_frame" /\ pos' = r.pos /\ err' = err
    /\ size' = NextSize
    /\ id' = NextId
    /\ frame_start' = pos
    /\ UNCHANGED <<channels, channel, idx, size_counter, collected>>
    /\ inputUnchanged /\ mapH5Unchanged

(***************************************************************************)
(* The inputs of decode: streams of at most MaxFrames frames.              *)
(***************************************************************************)
Frame(i, chans, events, body, delta) ==
    [id |-> i, comp |-> 0, chans |-> chans, events |-> events, body |-> body,
     delta |-> delta]

Full(code) == [chan |-> code, kind |-> "full"]
Null(code) == [chan |-> code, kind |-> "null"]
\* an event whose event_size (10) is below the 26 bytes of the metadata
Short(code) == [chan |-> code, kind |-> "short"]

\* headers: uncompressed, compressed (1), of an unknown compression (2)
HeaderFrames ==
    {Frame(1, cs, <<>>, 0, 0) : cs \in {<<>>, <<65>>, <<65, 66>>, <<67>>}}
    \cup {[Frame(1, <<66>>, <<>>, 0, 0) EXCEPT !.comp = c] : c \in {1, 2}}

ValueFrames ==
    {Frame(0, <<>>, v[1], 0, v[2]) :
        v \in {<<(<<Full(65)>>), 0>>, <<(<<Full(65)>>), 3>>, <<(<<Full(65)>>), -1>>,
               <<(<<Null(65)>>), 0>>, <<(<<Short(65)>>), 0>>,
               <<(<<Full(65), Full(66)>>), 0>>, <<(<<Full(65), Full(66)>>), 1>>,
               <<(<<Full(65), Full(66)>>), 3>>, <<(<<Full(68), Full(66)>>), 0>>}}

OtherFrames == {Frame(2, <<>>, <<>>, 2, 0)}

FrameChoices == HeaderFrames \cup ValueFrames \cup OtherFrames

Streams(n) == UNION {[1..k -> FrameChoices] : k \in 0..n}

\* the state of the collectors when they are not used
MappingIdle ==
    /\ mc_calls = <<>>
    /\ number_of_channels = 1
    /\ event_fields = {}
    /\ backend_data = <<>>
    /\ channel_count = 0
    /\ tmp_array = <<>>

DictIdle ==
    /\ dict_calls = <<>>
    /\ dict_event_fields = {}
    /\ dict_backend_data = <<>>

H5Idle ==
    /\ file = None
    /\ datasets = <<>>
    /\ h5files = <<>>
    /\ h5_appends = <<>>
    /\ h5_resizes = <<>>
    /\ h5_calls = <<>>
    /\ h5_raised = ""

\* an empty dict
EmptyDict == [k \in {} |-> None]

\* no DataApiClient was made yet: the class as its definition leaves it
\* (data_api_client.py line 92)
ClientIdle ==
    /\ class_aggregation = EmptyDict
    /\ clients = EmptyDict
    /\ query = None

\* lines 241-251: decode is entered with a byte source and a collector
DecodeEntered(fs, cut, cf) ==
    /\ frames = fs
    /\ stream = LET all == EncodeAll(fs) IN SubSeq(all, 1, Len(all) - cut)
    /\ collector_function = cf
    /\ pos = 0
    /\ pc = "read_frame"
    /\ err = ""
    /\ size = 0
    /\ id = 0
    /\ channels = None
    /\ channel = None
    /\ idx = 0
    /\ size_counter = 0
    /\ frame_start = 0
    /\ collected = <<>>
    /\ warnings = <<>>

\* decode is entered with a collector, or (shorter streams) without one
Init ==
    /\ \E fs \in Streams(MaxFrames), cf \in BOOLEAN :
          /\ IF cf THEN TRUE ELSE Len(fs) <= MaxFramesNoCollector
          /\ DecodeEntered(fs, 0, cf)
    /\ MappingIdle
    /\ DictIdle
    /\ H5Idle
    /\ ClientIdle

Next ==
    \/ EndOfStream
    \/ TruncatedFrameHead
    \/ \E neg \in NegativeRead, lib \in HeaderLib : ReadHeader(neg, lib)
    \/ ValuesUnbound
    \/ \E neg \in NegativeRead : SkipValues(neg)
    \/ BeginValues
    \/ \E neg \in NegativeRead, lib \in EventLib : DecodeEvent(neg, lib)
    \/ FinishValues
    \/ \E neg \in NegativeRead : SkipUnknown(neg)

Spec == Init /\ [][Next]_vars

(***************************************************************************)
(* The inputs of decode for the type dispatch: a header declaring one      *)
(* channel, of any type string and either byte order, and value frames     *)
(* carrying that channel.                                                  *)
(***************************************************************************)
MaxValueFrames == 2     \* value frames after the header

TypeStreams ==
    {<<Frame(1, <<c>>, <<>>, 0, 0)>> \o [k \in 1..n |-> Frame(0, <<>>, <<Full(c)>>, 0, 0)] :
        c \in TypeCodes \cup {68}, n \in 0..MaxValueFrames}

InitTypes ==
    /\ \E fs \in TypeStreams : DecodeEntered(fs, 0, TRUE)
    /\ MappingIdle
    /\ DictIdle
    /\ H5Idle
    /\ ClientIdle

NextTypes ==
    \/ EndOfStream
    \/ \E neg \in NegativeRead, lib \in HeaderLib : ReadHeader(neg, lib)
    \/ BeginValues
    \/ \E neg \in NegativeRead, lib \in EventLib : DecodeEvent(neg, lib)
    \/ FinishValues

SpecTypes == InitTypes /\ [][NextTypes]_vars

\* decode is entered with a stream that was cut short
InitCut ==
    /\ \E fs \in Streams(MaxCutFrames) \ {<<>>}, cut \in 1..MaxCut :
          /\ cut <= Len(EncodeAll(fs))
          /\ DecodeEntered(fs, cut, TRUE)
    /\ MappingIdle
    /\ DictIdle
    /\ H5Idle
    /\ ClientIdle

SpecCut == InitCut /\ [][Next]_vars

(***************************************************************************)
(* The stream as the sender laid it out, for the claims about alignment.   *)
(***************************************************************************)
\* offset of the first byte of frame i (i = Len(frames) + 1: the end)
FrameStart(i) == Len(EncodeAll(SubSeq(frames, 1, i - 1)))

\* decode is about to read the length field of frame i, which is wholly
\* in the stream and counts its own kind identifier
AtFrame(i) ==
    /\ pc = "read_frame"
    /\ i \in 1..Len(frames)
    /\ pos = FrameStart(i)
    /\ FrameSize(frames[i]) >= 2
    /\ pos + 8 + FrameSize(frames[i]) <= Len(stream)

\* the channel loop of a value frame has ended; line 384 is next
LoopEnded == pc = "value_loop" /\ idx > Len(Get(channels))

\* declared size minus the bytes consumed since the length field
\* (2 for the kind, 4 + event_size for each channel)
TrueRemainder == size - (pos - (frame_start + 8))

(***************************************************************************)
(* Claims about decode.                                                    *)
(***************************************************************************)

\* C2: after the channels of a value frame (one or more), when the declared size exceeds
\* the bytes consumed for the frame by k > 0 (and the stream holds them),
\* decode drains exactly k bytes, for any number of channels.
C2_DrainsExactlyK ==
    [][(LoopEnded /\ Len(Get(channels)) >= 1
           /\ TrueRemainder > 0 /\ pos + TrueRemainder <= Len(stream))
          => pos' = pos + TrueRemainder]_vars

\* C4: a channel whose 4-byte event_size is 0 takes exactly 4 bytes of the
\* stream, the loop moves on to the next descriptor, and the collector gets
\* the channel's name and backend with all six fields null.
C4_NullEventFourBytes ==
    [][(pc = "value_loop" /\ idx <= Len(Get(channels)) /\ Read(pos, 4) = Zeros(4))
          => /\ pos' = pos + 4
             /\ pc' = "value_loop"
             /\ idx' = idx + 1
             /\ collector_function =>
                  collected' = Append(collected,
                      [channel_name |-> Get(channels)[idx].name,
                       backend |-> Get(channels)[idx].backend,
                       value |-> None, pulse_id |-> None, global_time |-> None,
                       ioc_time |-> None, status |-> None, severity |-> None])]_vars

\* a null event was delivered and the loop went on
C4_Witness ==
    /\ pc = "value_loop"
    /\ collected # <<>>
    /\ collected[Len(collected)].value = None
    /\ collected[Len(collected)].severity = None

\* C5: a header frame that declares a channel of unsupported type ends
\* decode with an error at the end of that header frame: nothing after the
\* frame is read, the collector gets nothing more, and no step follows.
C5_UnsupportedTypeAborts ==
    /\ [][\A i \in 1..Len(frames) :
            (/\ frames[i].id = 1
             /\ \E k \in 1..Len(frames[i].chans) : frames[i].chans[k] = 67
             /\ AtFrame(i))
            => /\ pc' = "error"
               /\ err' = "RuntimeError: Unsupported data type"
               /\ pos' = FrameStart(i + 1)
               /\ collected' = collected]_vars
    /\ [][pc # "error"]_vars

\* decode stopped on the unsupported type with frames still unread
C5_Witness ==
    /\ pc = "error"
    /\ err = "RuntimeError: Unsupported data type"
    /\ pos < Len(stream)
    /\ \E i \in 2..Len(frames) : pos = FrameStart(i) /\ frames[i].id = 0

\* C6: a frame of a kind other than 0 and 1 is dropped: exactly size - 2
\* bytes after the kind are consumed, decode does not raise, the descriptor
\* list stays as it is, and the next length field is read right after it.
C6_UnknownKindSkipped ==
    [][\A i \in 1..Len(frames) :
          (frames[i].id \notin {0, 1} /\ AtFrame(i))
          => /\ pos' = pos + 10 + (FrameSize(frames[i]) - 2)
             /\ pos' = FrameStart(i + 1)
             /\ pc' = "read_frame"
             /\ err' = ""
             /\ channels' = channels]_vars

\* an unknown frame was dropped while a descriptor list was in place, and
\* another frame follows
C6_Witness ==
    /\ pc = "read_frame"
    /\ id = 2
    /\ channels # None /\ Len(Get(channels)) = 2
    /\ pos = frame_start + 8 + size
    /\ pos < Len(stream)

\* C7: a value frame met while the descriptor list is absent or empty is
\* dropped: exactly size - 2 bytes of its body are consumed, the collector
\* gets nothing, decode does not raise and goes on with the next frame.
C7_NoChannelsSkipped ==
    [][\A i \in 1..Len(frames) :
          (/\ frames[i].id = 0
           /\ channels = None \/ channels = Some(<<>>)
           /\ AtFrame(i))
          => /\ pos' = pos + 10 + (FrameSize(frames[i]) - 2)
             /\ pc' = "read_frame"
             /\ err' = ""
             /\ collected' = collected]_vars

\* C8: after the channels of a value frame, when more bytes were consumed for
\* the frame than its declared size, decode fails with an error.
C8_NegativeRemainderFails ==
    [][(LoopEnded /\ TrueRemainder < 0) => pc' = "error"]_vars

\* C9: decode returns normally only when the stream ends exactly where a
\* frame starts.
C9_CleanEndOnlyAtBoundary ==
    pc = "done" => \E i \in 1..(Len(frames) + 1) : Len(stream) = FrameStart(i)

\* the frames of the input in which a recoverable condition occurs: a frame
\* of unknown kind, a value frame before any channel is declared, a value
\* frame with bytes left after its channels
RECURSIVE Recoverable(_, _)
Recoverable(fs, declared) ==
    IF fs = <<>> THEN 0
    ELSE LET f == Head(fs) IN
         IF f.id = 1 THEN Recoverable(Tail(fs), Len(f.chans))
         ELSE (IF f.id # 0 \/ declared = 0 \/ f.delta > 0 THEN 1 ELSE 0)
              + Recoverable(Tail(fs), declared)

\* every header declares channels of supported type, every value frame after
\* a header carries one event per declared channel and no less than its size
RECURSIVE WellFormed(_, _)
WellFormed(fs, declared) ==
    IF fs = <<>> THEN TRUE
    ELSE LET f == Head(fs) IN
         IF f.id = 1
         THEN /\ f.comp = 0
              /\ \A k \in 1..Len(f.chans) : f.chans[k] # 67
              /\ WellFormed(Tail(fs), f.chans)
         ELSE /\ f.delta >= 0
              /\ \A k \in 1..Len(f.events) : f.events[k].kind # "short"
              /\ f.id = 0 /\ declared # <<>> =>
                   [k \in 1..Len(f.events) |-> f.events[k].chan] = declared
              /\ WellFormed(Tail(fs), declared)

\* C10: when decode has returned, the number of recoverable conditions it
\* reported equals the number of frames in which one occurred.
C10_WarningsCounted ==
    (pc = "done" /\ WellFormed(frames, <<>>))
        => Len(warnings) = Recoverable(frames, 0)

\* the last header frame before frame i (0 when there is none)
LatestHeader(i) ==
    LET hs == {j \in 1..(i - 1) : frames[j].id = 1}
    IN  IF hs = {} THEN 0 ELSE CHOOSE j \in hs : \A k \in hs : k <= j

\* the descriptors of the channels a header frame declares, in its order
Declared(f) == [k \in 1..Len(f.chans) |-> Descriptor(JsonChannel(f.chans[k]))]

\* C13: with a collector, a value frame decoded with n >= 1 descriptors calls
\* the collector exactly n times: the collector is called only by an
\* iteration of the channel loop, every iteration that ends calls it once,
\* the i-th with the name and backend of the i-th descriptor, the loop starts
\* at the first descriptor and is left after the n-th.
C13_OneCallPerChannel ==
    /\ [][collected' # collected
            => /\ pc = "value_loop" /\ idx <= Len(Get(channels))
               /\ idx' = idx + 1
               /\ Len(collected') = Len(collected) + 1
               /\ SubSeq(collected', 1, Len(collected)) = collected
               /\ collected'[Len(collected')].channel_name = Get(channels)[idx].name
               /\ collected'[Len(collected')].backend = Get(channels)[idx].backend]_vars
    /\ [][(collector_function /\ pc = "value_loop" /\ idx <= Len(Get(channels))
              /\ pc' # "error")
            => Len(collected') = Len(collected) + 1]_vars
    /\ [][(pc = "read_frame" /\ pc' = "value_loop") => idx' = 1]_vars
    /\ [][LoopEnded => pc' = "read_frame" /\ idx = Len(Get(channels)) + 1]_vars
    /\ [][pc = "value_loop" => channels' = channels]_vars

\* a value frame of two channels was decoded: two calls, in header order
C13_Witness ==
    /\ pc = "read_frame" /\ id = 0
    /\ channels # None /\ Len(Get(channels)) = 2
    /\ Len(collected) = 2
    /\ collected[1].channel_name = "A" /\ collected[1].backend = "sf-databuffer"
    /\ collected[2].channel_name = "B" /\ collected[2].backend = "sf-archiver"

\* C14: when decode reaches a value frame that follows two or more header
\* frames, its descriptor list is that of the latest header alone (for a
\* compressed header: of the document the decompression yielded), and the
\* list changes at header frames only.
C14_LatestHeaderOnly ==
    /\ [](\A i \in 1..Len(frames) :
            (frames[i].id = 0 /\ LatestHeader(LatestHeader(i)) # 0 /\ AtFrame(i))
            => LET h == frames[LatestHeader(i)]
               IN  IF h.comp = 0 THEN channels = Some(Declared(h))
                   ELSE channels \in {Some(<<>>), Some(<<Descriptor(JsonChannel(65))>>)})
    /\ [][channels' # channels => (FrameHeadRead /\ NextId = 1)]_vars

\* a header of two channels, then a header of one, then a value frame that
\* was decoded with that one channel
C14_Witness ==
    /\ Len(frames) = 3
    /\ frames[1].id = 1 /\ Len(frames[1].chans) = 2
    /\ frames[2].id = 1 /\ Len(frames[2].chans) = 1 /\ frames[2].comp = 0
    /\ frames[3].id = 0
    /\ pc = "done"
    /\ Len(collected) = 1
    /\ collected[1].channel_name = "A"

\* C15: a header frame whose compression byte is neither 0 nor 1 ends decode
\* with an error at the end of that frame; the descriptor list stays as it
\* was and no step follows.
C15_UnknownHeaderCompressionFails ==
    /\ [][\A i \in 1..Len(frames) :
            (frames[i].id = 1 /\ frames[i].comp \notin {0, 1} /\ AtFrame(i))
            => /\ pc' = "error"
               /\ err' = "RuntimeError: Compression not supported"
               /\ channels' = channels
               /\ collected' = collected
               /\ pos' = FrameStart(i + 1)]_vars
    /\ [][pc = "error" => FALSE]_vars

\* decode stopped on the compression byte of a second header, a value frame
\* unread, the list of the first header still in place
C15_Witness ==
    /\ pc = "error"
    /\ err = "RuntimeError: Compression not supported"
    /\ channels # None /\ Len(Get(channels)) = 2
    /\ \E i \in 2..Len(frames) : pos = FrameStart(i) /\ frames[i].id = 0

\* the six fields of a collector call
EventFieldNames == {"value", "pulse_id", "global_time", "ioc_time", "status", "severity"}

\* C16: every call the collector gets has its six fields all null or all
\* non-null, and all null exactly when the event_size read for the channel
\* was 0.
C16_AllNullOrAllPresent ==
    [][collected' # collected
         => LET call  == collected'[Len(collected')]
                nulls == {f \in EventFieldNames : call[f] = None}
            IN  /\ nulls = {} \/ nulls = EventFieldNames
                /\ nulls = EventFieldNames
                     <=> EventSizeAt(Get(channels)[idx], pos) = 0]_vars

\* the collector got an absent event and a present one
C16_Witness ==
    \E i, j \in 1..Len(collected) :
        /\ \A f \in EventFieldNames : collected[i][f] = None
        /\ \A f \in EventFieldNames : collected[j][f] # None

\* C18: for a channel whose event_size is not 0, decode consumes exactly
\* 4 + event_size bytes of the stream (the stream holding them), whatever
\* the event_size.
C18_ConsumesEventSize ==
    [][(pc = "value_loop" /\ idx <= Len(Get(channels)) /\ Len(Read(pos, 4)) = 4
           /\ EventSizeAt(Get(channels)[idx], pos) # 0
           /\ pos + 4 + EventSizeAt(Get(channels)[idx], pos) <= Len(stream))
         => pos' = pos + 4 + EventSizeAt(Get(channels)[idx], pos)]_vars

\* frame i is a value frame of declared size exactly 2 + the sum over the
\* channels of 4 + event_size, each event_size 0 or at least 26: it carries
\* one event for each descriptor of the list in place, written in the byte
\* order of that descriptor, and no padding
SizedFrame(i) ==
    /\ frames[i].id = 0
    /\ frames[i].delta = 0
    /\ frames[i].events # <<>>
    /\ channels # None
    /\ Len(frames[i].events) = Len(Get(channels))
    /\ \A k \in 1..Len(frames[i].events) :
          /\ frames[i].events[k].kind # "short"
          /\ GenBig(frames[i].events[k].chan) = (Get(channels)[k].encoding = ">")

\* and the payload of every event that is not null has the length the
\* descriptor of its channel calls for (scalar channels, uncompressed)
PayloadsFit(i) ==
    \A k \in 1..Len(frames[i].events) :
        frames[i].events[k].kind = "full"
        => /\ GenElemSize(frames[i].events[k].chan) = Get(channels)[k].size
           /\ Get(channels)[k].compression = None
           /\ Get(channels)[k].shape = <<1>>

\* the channel loop runs on a frame of exact size, read from its start
InSizedFrame ==
    /\ pc = "value_loop"
    /\ \E i \in 1..Len(frames) : SizedFrame(i) /\ frame_start = FrameStart(i)

\* C23 as stated: decode consumes exactly 8 + size bytes for a value frame
\* whose size is exactly 2 + the sum over the channels of 4 + event_size,
\* each event_size 0 or at least 26, for one channel or more: no iteration
\* of the loop raises, after the loop exactly 8 + size bytes are consumed,
\* and the code after the loop drains nothing and reports nothing, so the
\* next frame is read where it starts.
C23_SizedFrameConsumed ==
    /\ []((LoopEnded /\ InSizedFrame)
            => /\ pos = frame_start + 8 + size
               /\ size = 2 + (size_counter - 2 * Len(Get(channels))))
    /\ [][InSizedFrame => pc' # "error"]_vars
    /\ [][(LoopEnded /\ InSizedFrame)
            => /\ pos' = pos
               /\ pc' = "read_frame"
               /\ warnings' = warnings]_vars

\* the same, on a frame whose payloads fit
InExactFrame ==
    /\ pc = "value_loop"
    /\ \E i \in 1..Len(frames) :
          SizedFrame(i) /\ PayloadsFit(i) /\ frame_start = FrameStart(i)

\* C23 amended: the same, for the frames in which moreover the payload of
\* every event that is not null has the length its channel's descriptor
\* calls for.
C23_ExactFrameConsumed ==
    /\ []((LoopEnded /\ InExactFrame)
            => /\ pos = frame_start + 8 + size
               /\ size = 2 + (size_counter - 2 * Len(Get(channels))))
    /\ [][InExactFrame => pc' # "error"]_vars
    /\ [][(LoopEnded /\ InExactFrame)
            => /\ pos' = pos
               /\ pc' = "read_frame"
               /\ warnings' = warnings]_vars

\* a header of two channels and two value frames of exact size were decoded
\* to the end of the stream: four calls, nothing reported
C23_Witness ==
    /\ pc = "done"
    /\ Len(frames) = 3
    /\ frames[1].id = 1 /\ Len(frames[1].chans) = 2
    /\ \A i \in {2, 3} : /\ frames[i].id = 0 /\ frames[i].delta = 0
                         /\ Len(frames[i].events) = 2
    /\ Len(collected) = 4
    /\ warnings = <<>>
    /\ pos = Len(stream)

\* the element kinds by name: element size and numpy type code
KindOf(t) ==
    CASE t = Some("uint8")   -> [size |-> 1, dtype |-> "u1"]
      [] t = Some("int8")    -> [size |-> 1, dtype |-> "i1"]
      [] t = Some("uint16")  -> [size |-> 2, dtype |-> "u2"]
      [] t = Some("int16")   -> [size |-> 2, dtype |-> "i2"]
      [] t = Some("uint32")  -> [size |-> 4, dtype |-> "u4"]
      [] t = Some("int32")   -> [size |-> 4, dtype |-> "i4"]
      [] t = Some("uint64")  -> [size |-> 8, dtype |-> "u8"]
      [] t = Some("int64")   -> [size |-> 8, dtype |-> "i8"]
      [] t = Some("float32") -> [size |-> 4, dtype |-> "f4"]
      [] t = Some("float64") -> [size |-> 8, dtype |-> "f8"]

KindNames ==
    {Some(n) : n \in {"uint8", "int8", "uint16", "int16", "uint32", "int32", "uint64",
                      "int64", "float32", "float64"}}

\* the type of the one channel the first frame, a header, declares
HeaderType == JsonChannel(frames[1].chans[1]).type

\* the header was decoded (or decode failed on it): with `accepted` the types
\* taken and kind(t) the kind of an accepted type t, the descriptor has that
\* kind's size and type code, and any other type ended decode with
\* 'Unsupported data type'
TypesHandled(accepted, kind(_)) ==
    (pc # "read_frame" \/ pos > 0)
        => IF HeaderType \in accepted
           THEN /\ err = ""
                /\ channels # None /\ Len(Get(channels)) = 1
                /\ Get(channels)[1].size = kind(HeaderType).size
                /\ Get(channels)[1].dtype[2] = kind(HeaderType).dtype
                /\ Get(channels)[1].name = "T" \/ HeaderType = None
           ELSE /\ pc = "error"
                /\ err = "RuntimeError: Unsupported data type"
                /\ collected = <<>>

\* absent and "float" are float64, a kind name is itself
ListedKind(t) ==
    IF t \in {None, Some("float")} THEN KindOf(Some("float64")) ELSE KindOf(t)

\* C17 as stated: a type is accepted only if it is absent, "float" or one of
\* the ten kind names, absent and "float" as float64 and a kind name as itself
\* with its element size; every other type string fails with 'Unsupported
\* data type'.
C17_OnlyListedTypes ==
    TypesHandled({None, Some("float")} \cup KindNames, ListedKind)

\* as ListedKind, and "int" is int64
ListedKindOrInt(t) ==
    IF t = Some("int") THEN KindOf(Some("int64")) ELSE ListedKind(t)

\* C17 amended: a type is accepted only if it is absent, "float", "int" or
\* one of the ten kind names, "int" as int64 (8 bytes); every other type
\* string fails with 'Unsupported data type'.
C17_ListedTypesAndInt ==
    TypesHandled({None, Some("float"), Some("int")} \cup KindNames, ListedKindOrInt)

\* a channel of type "int" was accepted and two of its events decoded as
\* 8-byte integers
C17_Witness ==
    /\ HeaderType = Some("int")
    /\ pc = "done"
    /\ Len(collected) = 2
    /\ collected[2].value = Some(3)

(***************************************************************************)
(* MappingCollector (lines 85-148).                                        *)
(***************************************************************************)
AllFields == {"value", "time", "pulseId", "status", "severity", "timeRaw"}

\* line 121: datetime.fromtimestamp(global_time / 1e9).astimezone()
Datetime(global_time) ==
    [seconds |-> global_time \div 1000000000,
     micros  |-> (global_time % 1000000000) \div 1000]

\* a slip at line 125: the pulse id stored as the raw time
FieldEntryRawPulse(field, c) ==
    CASE field = "value"    -> c.value
      [] field = "time"     -> IF c.global_time # None
                               THEN Some(Datetime(Get(c.global_time)))
                               ELSE c.global_time
      [] field = "timeRaw"  -> c.pulse_id
      [] field = "pulseId"  -> c.pulse_id
      [] field = "status"   -> c.status
      [] field = "severity" -> c.severity

\* lines 115-133: the entries of v for the fields of event_fields
FieldEntry(field, c) ==
    CASE field = "value"    -> c.value
      [] field = "time"     -> IF c.global_time # None
                               THEN Some(Datetime(Get(c.global_time)))
                               ELSE c.global_time
      [] field = "timeRaw"  -> c.global_time
      [] field = "pulseId"  -> c.pulse_id
      [] field = "status"   -> c.status
      [] field = "severity" -> c.severity

\* lines 109-133: the record v of a call (None when the value is None)
MappingRecord(fields, c) ==
    IF c.value = None THEN None
    ELSE Some([k \in {"channel", "backend"} \cup (fields \cap AllFields) |->
                 CASE k = "channel" -> Some(c.channel_name)
                   [] k = "backend" -> Some(c.backend)
                   [] OTHER         -> FieldEntry(k, c)])

\* lines 92-98: MappingCollector(number_of_channels, event_fields)
MappingInit(n, fields) ==
    /\ mc_calls = <<>>
    /\ number_of_channels = n
    /\ event_fields = fields
    /\ backend_data = <<>>
    /\ channel_count = 0
    /\ tmp_array = <<>>

\* a slip at line 102: the round is closed one call late
RoundCompleteLate(count, n) == count = n + 1

\* line 102: the pending round holds an entry for every channel
RoundComplete(count, n) == count = n

\* lines 100-135: add_data
MappingAddData(c) ==
    LET flush == RoundComplete(channel_count, number_of_channels)
        data  == IF flush THEN Append(backend_data, tmp_array) ELSE backend_data
        tmp   == IF flush THEN <<>> ELSE tmp_array
        count == IF flush THEN 0 ELSE channel_count
    IN  /\ backend_data' = data
        /\ channel_count' = count + 1
        /\ tmp_array' = Append(tmp, MappingRecord(event_fields, c))
        /\ mc_calls' = Append(mc_calls, c)
        /\ UNCHANGED <<number_of_channels, event_fields>>
        /\ UNCHANGED <<decodeVars, dictVars, h5Vars, clientVars>>

\* lines 142-148: get_data
MappingGetData == backend_data

\* the calls made on the collector: an absent event, a present one
MappingCall(name, present) ==
    [channel_name |-> name, backend |-> "sf-databuffer",
     value       |-> IF present THEN Some(3) ELSE None,
     pulse_id    |-> IF present THEN Some(5) ELSE None,
     global_time |-> IF present THEN Some(1500000000) ELSE None,
     ioc_time    |-> IF present THEN Some(7) ELSE None,
     status      |-> IF present THEN Some(1) ELSE None,
     severity    |-> IF present THEN Some(2) ELSE None]

MappingCalls == {MappingCall(n, p) : n \in {"A"}, p \in BOOLEAN}

DecodeIdle == DecodeEntered(<<>>, 0, FALSE)

InitMapping ==
    /\ \E n \in 1..MaxN, fields \in {AllFields, {"value", "pulseId"}} :
          MappingInit(n, fields)
    /\ DecodeIdle
    /\ DictIdle
    /\ H5Idle
    /\ ClientIdle

AddData == \E c \in MappingCalls : Len(mc_calls) < MaxCalls /\ MappingAddData(c)

NextMapping == AddData

SpecMapping == InitMapping /\ [][NextMapping]_vars

\* C1: after exactly R*N add_data calls (R >= 1) get_data returns exactly R
\* rounds in call order, each of N entries in call order, an entry being null
\* exactly when that call's value was null.
C1_RoundsReturned ==
    LET N == number_of_channels
        R == Len(mc_calls) \div N
    IN  (Len(mc_calls) >= 1 /\ Len(mc_calls) % N = 0)
        => /\ Len(MappingGetData) = R
           /\ \A r \in 1..R :
                /\ Len(MappingGetData[r]) = N
                /\ \A j \in 1..N :
                     (MappingGetData[r][j] = None)
                        <=> (mc_calls[(r - 1) * N + j].value = None)

\* C24: after any sequence of m add_data calls no event is lost or
\* duplicated: the entries of the completed rounds followed by those of the
\* pending round are the m entries of the calls, in call order; every
\* completed round has exactly N entries and the pending round 0 to N.
C24_NoEventLostOrDuplicated ==
    LET N == number_of_channels
        m == Len(mc_calls)
    IN  /\ Concat(backend_data) \o tmp_array
             = [k \in 1..m |-> MappingRecord(event_fields, mc_calls[k])]
        /\ \A r \in 1..Len(backend_data) : Len(backend_data[r]) = N
        /\ Len(tmp_array) \in 0..N
        /\ Len(tmp_array) = channel_count

\* N = 2 and five calls, the fourth with a null value: two completed rounds
\* and a pending round of one entry
C24_Witness ==
    /\ number_of_channels = 2
    /\ Len(mc_calls) = 5
    /\ mc_calls[4].value = None /\ mc_calls[5].value # None
    /\ Len(backend_data) = 2
    /\ backend_data[2][2] = None /\ backend_data[2][1] # None
    /\ Len(tmp_array) = 1 /\ tmp_array[1] # None

(***************************************************************************)
(* DictionaryCollector (lines 19-82).  A Python dict keeps its keys in     *)
(* insertion order: backend_data is a sequence of [backend, channels] and  *)
(* channels a sequence of [channel, data_list].                            *)
(***************************************************************************)
MaxDictCalls == 4       \* DictionaryCollector: add_data calls

\* lines 49-67: the entry of v for one field of event_fields
DictFieldEntry(field, c) ==
    CASE field = "value"    -> c.value
      [] field = "time"     -> IF c.global_time # None
                               THEN Some(Datetime(Get(c.global_time)))
                               ELSE c.global_time
      [] field = "timeRaw"  -> c.global_time
      [] field = "pulseId"  -> c.pulse_id
      [] field = "status"   -> c.status
      [] field = "severity" -> c.severity

\* lines 47-67: the record v of a call
DictRecord(fields, c) == [k \in fields \cap AllFields |-> DictFieldEntry(k, c)]

\* position of key k among the entries of an ordered dict, 0 when absent
KeyIndex(entries, field, k) ==
    LET hits == {i \in 1..Len(entries) : entries[i][field] = k}
    IN  IF hits = {} THEN 0 ELSE CHOOSE i \in hits : TRUE

\* a slip at lines 41-45: a new list on every call
DataListFresh(channel_data, channel_name) == <<>>

\* lines 41-45: the data list of a channel, a new one when it has none
DataListOf(channel_data, channel_name) ==
    LET i == KeyIndex(channel_data, "channel", channel_name)
    IN  IF i = 0 THEN <<>> ELSE channel_data[i].data_list

\* d[k] = v on an ordered dict: in place, or appended when k is new
SetKey(entries, field, k, entry) ==
    LET i == KeyIndex(entries, field, k)
    IN  IF i = 0 THEN Append(entries, entry) ELSE [entries EXCEPT ![i] = entry]

\* lines 26-28: DictionaryCollector(event_fields)
DictInit(fields) ==
    /\ dict_calls = <<>>
    /\ dict_event_fields = fields
    /\ dict_backend_data = <<>>

\* lines 30-69: add_data
DictAddData(c) ==
    LET b == KeyIndex(dict_backend_data, "backend", c.backend)
        channel_data == IF b = 0 THEN <<>> ELSE dict_backend_data[b].channels
        data_list == Append(DataListOf(channel_data, c.channel_name),
                            DictRecord(dict_event_fields, c))
        updated == SetKey(channel_data, "channel", c.channel_name,
                          [channel |-> c.channel_name, data_list |-> data_list])
    IN  /\ dict_backend_data' = SetKey(dict_backend_data, "backend", c.backend,
                                       [backend |-> c.backend, channels |-> updated])
        /\ dict_calls' = Append(dict_calls, c)
        /\ UNCHANGED dict_event_fields
        /\ UNCHANGED <<decodeVars, mappingVars, h5Vars, clientVars>>

\* lines 76-82: get_data
DictGetData ==
    Concat([b \in 1..Len(dict_backend_data) |->
              [k \in 1..Len(dict_backend_data[b].channels) |->
                 [channel |-> [name    |-> dict_backend_data[b].channels[k].channel,
                               backend |-> dict_backend_data[b].backend],
                  data    |-> dict_backend_data[b].channels[k].data_list]]])

\* the calls made on the collector: an absent event or a present one, for
\* channels of two names on two backends
DictCall(name, backend, present, pulse) ==
    [channel_name |-> name, backend |-> backend,
     value       |-> IF present THEN Some(3) ELSE None,
     pulse_id    |-> IF present THEN Some(pulse) ELSE None,
     global_time |-> IF present THEN Some(1500000000) ELSE None,
     ioc_time    |-> IF present THEN Some(7) ELSE None,
     status      |-> IF present THEN Some(1) ELSE None,
     severity    |-> IF present THEN Some(2) ELSE None]

DictPairs == {<<"A", "sf-databuffer">>, <<"B", "sf-databuffer">>, <<"A", "sf-archiver">>}

DictCalls == {DictCall(p[1], p[2], present, 5) : p \in DictPairs, present \in BOOLEAN}

InitDictionary ==
    /\ \E fields \in {AllFields, {"value", "pulseId"}} : DictInit(fields)
    /\ DecodeIdle
    /\ MappingIdle
    /\ H5Idle
    /\ ClientIdle

DictAdd == \E c \in DictCalls : Len(dict_calls) < MaxDictCalls /\ DictAddData(c)

NextDictionary == DictAdd

SpecDictionary == InitDictionary /\ [][NextDictionary]_vars

\* the add_data calls made for one (backend, channel) pair, in call order
CallsFor(backend, name) ==
    LET ofPair(c) == c.backend = backend /\ c.channel_name = name
    IN  SelectSeq(dict_calls, ofPair)

\* C11: get_data returns exactly one entry per (backend, channel) pair seen,
\* labelled with that name and backend, and no entry for any other pair; the
\* entry's data list has one record per add_data call made for the pair, in
\* call order: the k-th record holds the value and the pulse id of the k-th
\* call for the pair.
C11_GroupedByPair ==
    LET data == DictGetData
        seen == {<<dict_calls[i].backend, dict_calls[i].channel_name>> :
                    i \in 1..Len(dict_calls)}
    IN  /\ \A pr \in seen :
             Cardinality({i \in 1..Len(data) :
                 data[i].channel = [name |-> pr[2], backend |-> pr[1]]}) = 1
        /\ \A i \in 1..Len(data) :
             /\ <<data[i].channel.backend, data[i].channel.name>> \in seen
             /\ LET calls == CallsFor(data[i].channel.backend, data[i].channel.name)
                IN  /\ Len(data[i].data) = Len(calls)
                    /\ \A k \in 1..Len(calls) :
                         /\ data[i].data[k].value = calls[k].value
                         /\ data[i].data[k].pulseId = calls[k].pulse_id

\* four calls over three pairs on two backends, one pair called twice with
\* an absent event first and a present one second
C11_Witness ==
    /\ Len(dict_calls) = 4
    /\ Len(DictGetData) = 3
    /\ Len(dict_backend_data) = 2
    /\ \E i \in 1..3 :
         /\ Len(DictGetData[i].data) = 2
         /\ DictGetData[i].data[1].value = None
         /\ DictGetData[i].data[2].value = Some(3)

(***************************************************************************)
(* Both collectors, each constructed with an allow-list of event fields.   *)
(***************************************************************************)
MaxCollectorCalls == 2  \* add_data calls on the two collectors together

InitCollectors ==
    /\ \E n \in 1..MaxN, fields \in SUBSET AllFields :
          MappingInit(n, fields) /\ DictInit(fields)
    /\ DecodeIdle
    /\ H5Idle
    /\ ClientIdle

CollectorCallsMade == Len(mc_calls) + Len(dict_calls)

MappingAdd ==
    \E c \in MappingCalls : CollectorCallsMade < MaxCollectorCalls /\ MappingAddData(c)

DictionaryAdd ==
    \E c \in DictCalls : CollectorCallsMade < MaxCollectorCalls /\ DictAddData(c)

NextCollectors == MappingAdd \/ DictionaryAdd

SpecCollectors == InitCollectors /\ [][NextCollectors]_vars

\* the records MappingCollector holds, in call order
MappingStored == Concat(backend_data) \o tmp_array

\* record r holds the fields of call c that the allow-list names, unchanged
HoldsFieldsOf(r, c, fields) ==
    /\ "timeRaw" \in fields  => r.timeRaw = c.global_time
    /\ "pulseId" \in fields  => r.pulseId = c.pulse_id
    /\ "status" \in fields   => r.status = c.status
    /\ "severity" \in fields => r.severity = c.severity
    /\ "value" \in fields    => r.value = c.value

Put(f, k, v) == [x \in DOMAIN f \cup {k} |-> IF x = k THEN v ELSE f[x]]

\* the file self.file refers to
OpenFile == h5files[Get(file)]
FileIsOpen == file # None /\ OpenFile.open

\* h5py.File(file_name, "w"): a new, empty, open file.  shape is the
\* allocated length of each dataset along axis 0, rows the rows written to
\* it (by row index; a row never written keeps the fill value), handle the
\* identity of the file object (the files are numbered as they are opened)
NewFile == [open |-> TRUE, shape |-> <<>>, rows |-> <<>>, handle |-> 1]

\* lines 163-166 and 168-175: HDF5Collector() and open(file_name) on it
H5Opened(file_name) ==
    /\ file = Some(file_name)
    /\ datasets = <<>>
    /\ h5files = Put(<<>>, file_name, NewFile)
    /\ h5_appends = <<>>
    /\ h5_resizes = <<>>
    /\ h5_calls = <<>>
    /\ h5_raised = ""

\* line 208: the length require_dataset allocates, [1,] + shape
InitialLength == 1

\* line 214: the length a dataset is extended to
ExtendedLength(count) == count + 1000

\* a slip at line 213: the dataset is extended on every call
NeedsResizeAlways(length, count) == TRUE

\* line 213: the dataset cannot take one more row
NeedsResize(length, count) == length < count + 1

\* the collector and its file, as one value
H5State ==
    [files |-> h5files, datasets |-> datasets, appends |-> h5_appends,
     resizes |-> h5_resizes]

\* m[k] + 1, counting from 0
Counted(m, k) == Put(m, k, IF k \in DOMAIN m THEN m[k] + 1 ELSE 1)

\* lines 211-214: the Dataset found in self.datasets refers to a dataset of
\* a file that is no longer self.file (h5py refuses to read the shape of, or
\* to resize, an object of a closed file: ValueError)
Stale(st, dataset_name) ==
    /\ dataset_name \in DOMAIN st.datasets
    /\ st.datasets[dataset_name].reference # st.files[Get(file)].handle

\* lines 191-220: append_dataset(dataset_name, value, ...) on state st
AppendDatasetOn(st, dataset_name, value) ==
    LET f       == st.files[Get(file)]
        known   == dataset_name \in DOMAIN st.datasets
        created == IF known THEN f.shape
                   ELSE Put(f.shape, dataset_name, InitialLength)
        rows0   == IF known THEN f.rows ELSE Put(f.rows, dataset_name, <<>>)
        dataset == IF known THEN st.datasets[dataset_name]
                   ELSE [name |-> dataset_name, count |-> 0,
                         reference |-> f.handle]
        length  == created[dataset_name]
        resize  == NeedsResize(length, dataset.count)
        shape   == IF resize
                   THEN Put(created, dataset_name, ExtendedLength(dataset.count))
                   ELSE created
        rows    == IF value # None
                   THEN Put(rows0, dataset_name,
                            Put(rows0[dataset_name], dataset.count, Get(value)))
                   ELSE rows0
    IN  [files    |-> Put(st.files, Get(file),
                          [f EXCEPT !.shape = shape, !.rows = rows]),
         datasets |-> Put(st.datasets, dataset_name,
                          [dataset EXCEPT !.count = dataset.count + 1]),
         appends  |-> Counted(st.appends, dataset_name),
         resizes  |-> IF resize THEN Counted(st.resizes, dataset_name)
                      ELSE st.resizes]

\* the collector and its file become st
H5Becomes(st) ==
    /\ h5files' = st.files
    /\ datasets' = st.datasets
    /\ h5_appends' = st.appends
    /\ h5_resizes' = st.resizes

\* lines 191-220: a call of append_dataset(dataset_name, value, ...)
AppendDataset(dataset_name, value) ==
    /\ FileIsOpen
    /\ IF Stale(H5State, dataset_name)
       THEN /\ h5_raised' = "ValueError"
            /\ UNCHANGED <<h5files, datasets, h5_appends, h5_resizes>>
       ELSE /\ H5Becomes(AppendDatasetOn(H5State, dataset_name, value))
            /\ h5_raised' = ""
    /\ UNCHANGED <<file, h5_calls>>
    /\ UNCHANGED <<decodeVars, mappingVars, dictVars, clientVars>>

\* a slip at line 187: compaction leaves the allocated length as it is
CompactedLengthKept(length, count) == length

\* lines 187-189: the length of a dataset after compact_data
CompactedLength(length, count) == IF count < length THEN count ELSE length

\* lines 177-189: close(), which runs compact_data over self.datasets.  The
\* Datasets of an earlier file come first in the table, and reading the
\* shape of one raises before anything is compacted or closed
H5Close ==
    /\ FileIsOpen
    /\ IF \E d \in DOMAIN datasets : Stale(H5State, d)
       THEN /\ h5_raised' = "ValueError"
            /\ UNCHANGED h5files
       ELSE /\ h5files' = Put(h5files, Get(file),
                 [OpenFile EXCEPT
                    !.open = FALSE,
                    !.shape = [d \in DOMAIN OpenFile.shape |->
                                IF d \in DOMAIN datasets
                                THEN CompactedLength(OpenFile.shape[d],
                                                     datasets[d].count)
                                ELSE OpenFile.shape[d]]])
            /\ h5_raised' = ""
    /\ UNCHANGED <<file, datasets, h5_appends, h5_resizes, h5_calls>>
    /\ UNCHANGED <<decodeVars, mappingVars, dictVars, clientVars>>

\* '/' + channel_name + '/' + value_name
DatasetName(channel_name, value_name) == <<channel_name, value_name>>

DatasetNames == {DatasetName("A", "data"), DatasetName("A", "pulse_id")}

\* the number of append_dataset calls made on a dataset
Appends(d) == IF d \in DOMAIN h5_appends THEN h5_appends[d] ELSE 0

InitH5 ==
    /\ H5Opened("f1.h5")
    /\ DecodeIdle
    /\ MappingIdle
    /\ DictIdle
    /\ ClientIdle

AppendRow ==
    \E d \in DatasetNames, value \in {None, Some(3)} :
        /\ Appends(d) < (IF d = DatasetName("A", "data")
                         THEN MaxAppends ELSE MaxAppendsOther)
        /\ d = DatasetName("A", "data") => value # None
        /\ AppendDataset(d, value)

Close == H5Close

NextH5 == AppendRow \/ Close

SpecH5 == InitH5 /\ [][NextH5]_vars

MaxEvents == 3          \* HDF5Collector: add_data calls

\* lines 227-238: the append_dataset calls of add_data, in order.  Of each:
\* the dataset, the argument stored, the argument whose dtype and shape are
\* taken
AddDataPlan(c) ==
    << <<"data", c.value, c.value>>,
       <<"pulse_id", c.pulse_id, c.pulse_id>>,
       <<"timestamp", c.global_time, c.global_time>>,
       <<"ioc_timestamp", c.ioc_time, c.ioc_time>>,
       <<"status", c.status, c.status>>,
       <<"severity", c.ioc_time, c.severity>> >>

\* line 208: [1,] + shape is defined for a list; for the tuple that is the
\* shape of a numpy value it raises TypeError
ShapeConcatenates(shape) == shape = "list"

\* lines 227-238 from one call on: [st, raised].  The arguments of a call
\* are evaluated first: None has no attribute dtype.  `shape` is the kind of
\* the shape attribute of the arguments, read when the dataset is created
RECURSIVE RunPlan(_, _, _, _)
RunPlan(st, channel_name, shape, plan) ==
    IF plan = <<>> THEN [st |-> st, raised |-> ""]
    ELSE LET dataset_name == DatasetName(channel_name, Head(plan)[1])
             stored       == Head(plan)[2]
             typed        == Head(plan)[3]
         IN  IF typed = None THEN [st |-> st, raised |-> "AttributeError"]
             ELSE IF Stale(st, dataset_name)
                  THEN [st |-> st, raised |-> "ValueError"]
             ELSE IF dataset_name \notin DOMAIN st.datasets /\ ~ShapeConcatenates(shape)
                  THEN [st |-> st, raised |-> "TypeError"]
             ELSE RunPlan(AppendDatasetOn(st, dataset_name, stored),
                          channel_name, shape, Tail(plan))

\* lines 225-238: add_data
H5AddData(c) ==
    /\ FileIsOpen
    /\ LET r == RunPlan(H5State, c.channel_name, c.shape, AddDataPlan(c))
       IN  /\ H5Becomes(r.st)
           /\ h5_raised' = r.raised
           /\ h5_calls' = Append(h5_calls, [call |-> c, raised |-> r.raised])
    /\ UNCHANGED file
    /\ UNCHANGED <<decodeVars, mappingVars, dictVars, clientVars>>

\* the calls made on the collector: for an event, six values that have a
\* dtype and a shape, the shape a list or (numpy values) a tuple; or the six
\* nulls of an absent event
H5Call(name, present, ioc, sev, shape) ==
    [channel_name |-> name, backend |-> "sf-databuffer", shape |-> shape,
     value       |-> IF present THEN Some(3) ELSE None,
     pulse_id    |-> IF present THEN Some(5) ELSE None,
     global_time |-> IF present THEN Some(9) ELSE None,
     ioc_time    |-> IF present THEN Some(ioc) ELSE None,
     status      |-> IF present THEN Some(1) ELSE None,
     severity    |-> IF present THEN Some(sev) ELSE None]

H5Calls == {H5Call("A", TRUE, 7, 2, "list"), H5Call("A", TRUE, 4, 4, "tuple"),
            H5Call("B", TRUE, 7, 0, "list"), H5Call("A", FALSE, 0, 0, "list")}

AddEvent == \E c \in H5Calls : Len(h5_calls) < MaxEvents /\ H5AddData(c)

NextH5Events == AddEvent \/ Close

SpecH5Events == InitH5 /\ [][NextH5Events]_vars

\* the add_data calls made for a channel that ran to their end, in call order
StoredCalls(name) ==
    LET stored(h) == h.call.channel_name = name /\ h.raised = ""
        calls     == SelectSeq(h5_calls, stored)
    IN  [k \in 1..Len(calls) |-> calls[k].call]

\* the rows written to a dataset of the file
Rows(d) == IF d \in DOMAIN OpenFile.rows THEN OpenFile.rows[d] ELSE <<>>

\* C12: for every event add_data stored, the row of the channel's severity
\* dataset holds the event's severity and the row of its ioc_timestamp
\* dataset holds the event's iocTime.
C12_SeverityFromSeverity ==
    file # None =>
      \A name \in {"A", "B"} :
        \A k \in 1..Len(StoredCalls(name)) :
           /\ Rows(DatasetName(name, "ioc_timestamp"))[k - 1]
                 = Get(StoredCalls(name)[k].ioc_time)
           /\ Rows(DatasetName(name, "severity"))[k - 1]
                 = Get(StoredCalls(name)[k].severity)

\* C3: once close() has run, every dataset that took n >= 1 append_dataset
\* calls has an allocated length along axis 0 of exactly n, its logical row
\* count.
C3_CompactedOnClose ==
    (file # None /\ ~OpenFile.open)
        => \A d \in DOMAIN datasets :
              /\ datasets[d].count = Appends(d)
              /\ Appends(d) >= 1
              /\ OpenFile.shape[d] = Appends(d)

\* 1500 appends on one dataset, fewer on another, and the file closed
C3_Witness ==
    /\ file # None /\ ~OpenFile.open
    /\ Appends(DatasetName("A", "data")) = 1500
    /\ Appends(DatasetName("A", "pulse_id")) = 2
    /\ OpenFile.shape[DatasetName("A", "data")] = 1500

\* the number of resize calls append_dataset made on a dataset
Resizes(d) == IF d \in DOMAIN h5_resizes THEN h5_resizes[d] ELSE 0

\* C20: after every append_dataset call the row count of every dataset is at
\* most its allocated length; a call changes the allocated length of a
\* dataset only when the dataset is full, and then to its row count + 1000;
\* n appends make at most 1 + n/1000 resize calls.
C20_ResizeAmortized ==
    /\ [](\A d \in DOMAIN datasets :
             /\ datasets[d].count <= OpenFile.shape[d]
             /\ Resizes(d) <= 1 + (Appends(d) \div 1000))
    /\ [][\A d \in DOMAIN datasets :
            (h5files'[Get(file)].open
                /\ h5files'[Get(file)].shape[d] # OpenFile.shape[d])
            => /\ OpenFile.shape[d] < datasets[d].count + 1
               /\ h5files'[Get(file)].shape[d] = datasets[d].count + 1000
               /\ datasets'[d].count = datasets[d].count + 1]_vars

\* 1002 rows appended: the dataset was extended at the 2nd and the 1002nd
C20_Witness ==
    /\ FileIsOpen
    /\ Appends(DatasetName("A", "data")) = 1002
    /\ Resizes(DatasetName("A", "data")) = 2
    /\ OpenFile.shape[DatasetName("A", "data")] = 2001

MaxFiles == 3           \* HDF5Collector: files opened by one collector

FileNames == {"f1.h5", "f2.h5"}

\* the handle of the next file object h5py creates
NextHandle ==
    1 + CHOOSE h \in 1..MaxFiles :
            /\ \E n \in DOMAIN h5files : h5files[n].handle = h
            /\ \A n \in DOMAIN h5files : h5files[n].handle <= h

\* lines 168-175: open(file_name).  `if self.file:` holds while the h5py file
\* is open (a closed h5py object is false); line 172 then calls close_file,
\* a method the class does not define: AttributeError.  Otherwise the file
\* is created anew (mode "w") and self.datasets is left as it is
H5Open(file_name) ==
    /\ file # None
    /\ IF OpenFile.open
       THEN /\ h5_raised' = "AttributeError"
            /\ UNCHANGED <<file, h5files>>
       ELSE /\ NextHandle <= MaxFiles
            /\ file' = Some(file_name)
            /\ h5files' = Put(h5files, file_name,
                              [NewFile EXCEPT !.handle = NextHandle])
            /\ h5_raised' = ""
    /\ UNCHANGED <<datasets, h5_appends, h5_resizes, h5_calls>>
    /\ UNCHANGED <<decodeVars, mappingVars, dictVars, clientVars>>

Open == \E file_name \in FileNames : H5Open(file_name)

AppendFew ==
    \E d \in DatasetNames, value \in {None, Some(3)} :
        /\ Appends(d) < MaxAppendsOther
        /\ AppendDataset(d, value)

NextH5Files == AppendFew \/ Close \/ Open

SpecH5Files == InitH5 /\ [][NextH5Files]_vars

\* C25: open() called while a file is open closes that file, compacting its
\* datasets, and then opens the new file, without raising.
C25_OpenClosesOpenFile ==
    [][\A file_name \in FileNames :
         (FileIsOpen /\ H5Open(file_name))
         => /\ h5_raised' = ""
            /\ file' = Some(file_name)
            /\ h5files'[file_name].open
            /\ h5files'[file_name].shape = <<>>
            /\ file_name # Get(file)
               => /\ ~h5files'[Get(file)].open
                  /\ \A d \in DOMAIN OpenFile.shape :
                        h5files'[Get(file)].shape[d] = datasets[d].count]_vars

\* C26: after close() and open() of another file the dataset table is empty,
\* and the first append_dataset for a name in the new file creates the
\* dataset there and starts its row count at 0, whatever the previous file
\* held.
C26_TableEmptyAfterReopen ==
    /\ [][\A file_name \in FileNames :
            (~FileIsOpen /\ file_name # Get(file) /\ H5Open(file_name))
            => datasets' = <<>>]_vars
    /\ [][\A d \in DatasetNames, value \in {None, Some(3)} :
            (d \notin DOMAIN OpenFile.shape /\ AppendDataset(d, value))
            => /\ h5_raised' = ""
               /\ d \in DOMAIN h5files'[Get(file)].shape
               /\ datasets'[d].count = 1]_vars

\* C21: an add_data call whose six fields are all null completes without
\* error and adds no row: every dataset and its row count stay as they were.
C21_NullEventAddsNoRow ==
    [][(/\ Len(h5_calls') = Len(h5_calls) + 1
        /\ h5_calls'[Len(h5_calls')].call.value = None)
       => /\ h5_raised' = ""
          /\ datasets' = datasets
          /\ h5files' = h5files]_vars

(***************************************************************************)
(* DataApiClient (src/data_api/data_api_client.py, lines 88-196).  A dict  *)
(* is a function from its keys.  _aggregation is an attribute of the class *)
(* (line 92): an instance has one of its own only once clear() has         *)
(* assigned it (line 127).                                                 *)
(***************************************************************************)
ClientNames == {"A", "B"}

\* lines 94-97: DataApiClient(source_name); is_local when source_name is a file
ClientInit(c, is_local) ==
    /\ c \notin DOMAIN clients
    /\ clients' = Put(clients, c, [is_local |-> is_local, aggregation |-> None])
    /\ UNCHANGED <<class_aggregation, query>>
    /\ UNCHANGED <<decodeVars, mappingVars, dictVars, h5Vars>>

\* self._aggregation as an attribute lookup finds it, in state (cls, insts)
AggregationOf(cls, insts, c) ==
    IF insts[c].aggregation = None THEN cls ELSE Get(insts[c].aggregation)

\* lines 119-120: get_aggregation()
GetAggregation(c) == AggregationOf(class_aggregation, clients, c)

\* line 108: more than one of the three was given
Rejects(a) ==
    Cardinality({k \in {"nr_of_bins", "duration_per_bin", "pulses_per_bin"} :
                    a[k] # None}) > 1

\* lines 104-117: the dict after set_aggregation with arguments a
AggregationSet(d, a) ==
    LET d1 == Put(Put(d, "aggregationType", a.aggregation_type),
                  "aggregations", a.aggregations)
        d2 == IF a.extrema # <<>> THEN Put(d1, "extrema", <<>>) ELSE d1
        d3 == IF a.nr_of_bins # None
              THEN Put(d2, "nrOfBins", Get(a.nr_of_bins)) ELSE d2
        d4 == IF a.duration_per_bin # None
              THEN Put(d3, "durationPerBin", Get(a.duration_per_bin)) ELSE d3
        d5 == IF a.pulses_per_bin # None
              THEN Put(d4, "pulsesPerBin", Get(a.pulses_per_bin)) ELSE d4
    IN  IF Rejects(a) THEN d2 ELSE d5

\* lines 99-117: set_aggregation(...) on client c: item assignments to the
\* dict the attribute lookup finds
ClientSetAggregation(c, a) ==
    /\ c \in DOMAIN clients
    /\ LET d == AggregationSet(GetAggregation(c), a)
       IN  IF clients[c].aggregation = None
           THEN class_aggregation' = d /\ UNCHANGED clients
           ELSE /\ clients' = [clients EXCEPT ![c].aggregation = Some(d)]
                /\ UNCHANGED class_aggregation
    /\ UNCHANGED query
    /\ UNCHANGED <<decodeVars, mappingVars, dictVars, h5Vars>>

\* lines 122-127: clear() gives the instance a new, empty dict of its own
ClientClear(c) ==
    /\ c \in DOMAIN clients
    /\ clients' = [clients EXCEPT ![c].aggregation = Some(EmptyDict)]
    /\ UNCHANGED <<class_aggregation, query>>
    /\ UNCHANGED <<decodeVars, mappingVars, dictVars, h5Vars>>

\* the arguments of set_aggregation
AggregationArgs ==
    [aggregation_type : {"value"},
     aggregations     : {<<"min", "mean", "max">>},
     extrema          : {<<>>, <<"minValue">>},
     nr_of_bins       : {None, Some(2)},
     duration_per_bin : {None, Some(10)},
     pulses_per_bin   : {None, Some(5)}]

Configure == \E c \in ClientNames, is_local \in BOOLEAN : ClientInit(c, is_local)

SetAggregation ==
    \E c \in ClientNames, a \in AggregationArgs : ClientSetAggregation(c, a)

ClearAggregation == \E c \in ClientNames : ClientClear(c)

NextAggregation == Configure \/ SetAggregation \/ ClearAggregation

InitClient ==
    /\ ClientIdle
    /\ DecodeIdle
    /\ MappingIdle
    /\ DictIdle
    /\ H5Idle

SpecAggregation == InitClient /\ [][NextAggregation]_vars

\* C27: the aggregation settings are per client: set_aggregation and clear
\* calls on one client leave the value another client's get_aggregation()
\* returns unchanged, and the get_aggregation() of a newly constructed client
\* returns an empty configuration.
C27_AggregationPerClient ==
    /\ [][\A c \in DOMAIN clients, b \in DOMAIN clients :
            (c # b /\ (ClientClear(c)
                         \/ \E a \in AggregationArgs : ClientSetAggregation(c, a)))
            => AggregationOf(class_aggregation', clients', b) = GetAggregation(b)]_vars
    /\ [][\A c \in ClientNames, is_local \in BOOLEAN :
            ClientInit(c, is_local)
            => AggregationOf(class_aggregation', clients', c) = EmptyDict]_vars

BinKeys == {"nrOfBins", "durationPerBin", "pulsesPerBin"}

\* C28: after any sequence of set_aggregation and clear calls the stored
\* configuration of a client holds at most one of the keys nrOfBins,
\* durationPerBin, pulsesPerBin; and a set_aggregation call rejected for
\* naming more than one of them leaves the stored configuration unchanged.
C28_OneBinKey ==
    /\ [](\A c \in DOMAIN clients :
            Cardinality(BinKeys \cap DOMAIN GetAggregation(c)) <= 1)
    /\ [][\A c \in DOMAIN clients, a \in AggregationArgs :
            (Rejects(a) /\ ClientSetAggregation(c, a))
            => AggregationOf(class_aggregation', clients', c) = GetAggregation(c)]_vars

(***************************************************************************)
(* DataApiClient.get_data (lines 129-196) and the range helpers (8-68).    *)
(* A datetime is a number of seconds; its isoformat is kept apart from it. *)
(***************************************************************************)
Isoformat(dt) == <<"iso", dt>>

\* lines 8-29: _convert_date(date_string): the two formats, in turn.  A
\* string of neither format leaves st unbound at line 29
ConvertDate(date_string) ==
    CASE date_string = "2016-07-28 12:00"    -> [err |-> "", st |-> 43200]
      [] date_string = "2016-07-28 12:00:30" -> [err |-> "", st |-> 43230]
      [] OTHER -> [err |-> "UnboundLocalError", st |-> 0]

\* lines 32-46: _set_pulseid_range(start_pulseid, end_pulseid, delta)
SetPulseidRange(start_pulseid, end_pulseid, delta) ==
    IF start_pulseid = 0 /\ end_pulseid = 0
    THEN [err |-> "RuntimeError: Must select at least start_pulseid or end_pulseid",
          d |-> EmptyDict]
    ELSE IF start_pulseid # 0
         THEN [err |-> "",
               d |-> [startPulseId |-> start_pulseid,
                      endPulseId |-> IF end_pulseid # 0 THEN end_pulseid
                                     ELSE start_pulseid + delta]]
         ELSE [err |-> "",
               d |-> [startPulseId |-> end_pulseid - delta,
                      endPulseId |-> end_pulseid]]

\* lines 49-68: _set_time_range(start_date, end_date, delta_time); `now` is
\* what the two calls of datetime.now() return
SetTimeRange(start_date, end_date, delta_time, now) ==
    LET s == ConvertDate(start_date)
        e == ConvertDate(end_date)
        ok(a, b) == [err |-> "", d |-> [startDate |-> Isoformat(a),
                                        endDate |-> Isoformat(b)]]
        fail(x) == [err |-> x, d |-> EmptyDict]
    IN  IF start_date = "" /\ end_date = ""
        THEN ok(now[1] - delta_time, now[2])
        ELSE IF start_date # "" /\ end_date # ""
             THEN IF s.err # "" THEN fail(s.err)
                  ELSE IF e.err # "" THEN fail(e.err)
                  ELSE ok(s.st, e.st)
        ELSE IF start_date # ""
             THEN IF s.err # "" THEN fail(s.err) ELSE ok(s.st, s.st + delta_time)
        ELSE IF e.err # "" THEN fail(e.err) ELSE ok(e.st - delta_time, e.st)

\* line 141: the test that guards the raise of line 142
BothRangesGiven(start_date, end_date, start_pulseid, end_pulseid) ==
    (start_date # "" \/ end_date # "") /\ (start_pulseid # 0 /\ end_pulseid # 0)

CannotSpecifyBoth == "RuntimeError: Cannot specify both PulseId and Time range"

\* lines 129-196: get_data(channels, ...) on client c.  `reply` is what the
\* server answers (a dict reports an error, a list carries the data) and is
\* used when the client is not local; the frame is built from data that
\* comes from outside.  A key cfg lacks is None
ClientGetData(c, q, now, reply) ==
    /\ c \in DOMAIN clients
    /\ LET agg    == GetAggregation(c)
           cfg0   == [aggregation |-> IF agg # EmptyDict THEN Some(agg) ELSE None,
                      channels |-> q.channels, range |-> EmptyDict]
           range  == IF q.start_pulseid # 0 \/ q.end_pulseid # 0
                     THEN SetPulseidRange(q.start_pulseid, q.end_pulseid,
                                          q.delta_range)
                     ELSE SetTimeRange(q.start_date, q.end_date, q.delta_range, now)
           cfg    == [cfg0 EXCEPT !.range = range.d]
           out(x, g, sent) ==
               Some([client |-> c, args |-> q, raised |-> x, cfg |-> g,
                     sent |-> sent])
       IN  query' =
             IF BothRangesGiven(q.start_date, q.end_date, q.start_pulseid,
                                q.end_pulseid)
             THEN out(CannotSpecifyBoth, cfg0, FALSE)
             ELSE IF range.err # "" THEN out(range.err, cfg0, FALSE)
             ELSE IF clients[c].is_local THEN out("", cfg, FALSE)
             ELSE IF reply = "dict" THEN out("RuntimeError: message", cfg, TRUE)
             ELSE out("", cfg, TRUE)
    /\ UNCHANGED <<class_aggregation, clients>>
    /\ UNCHANGED <<decodeVars, mappingVars, dictVars, h5Vars>>

\* the arguments of get_data
QueryArgs ==
    [channels      : {<<"ch1">>},
     start_date    : {"", "2016-07-28 12:00", "16-07-28"},
     end_date      : {"", "2016-07-28 12:00:30"},
     start_pulseid : {0, 100},
     end_pulseid   : {0, 200},
     delta_range   : {1}]

Query ==
    \E c \in ClientNames, q \in QueryArgs, reply \in {"list", "dict"} :
        ClientGetData(c, q, <<50000, 50001>>, reply)

\* set_aggregation with its defaults and one bin setting
SetBins ==
    \E c \in ClientNames, a \in AggregationArgs :
        /\ a.extrema = <<>> /\ a.duration_per_bin = None /\ a.pulses_per_bin = None
        /\ a.nr_of_bins # None
        /\ ClientSetAggregation(c, a)

NextQuery == Configure \/ SetBins \/ Query

SpecQuery == InitClient /\ [][NextQuery]_vars

\* C22: get_data raises 'Cannot specify both PulseId and Time range', before
\* a range is built or a request sent, whenever one of the dates at least is
\* given and one of the pulse ids at least is not zero; and in every call
\* that gets past that test the range is a pulse-id range only if no date
\* was given.
C22_BothRangesRejected ==
    query # None =>
        LET q     == Get(query)
            dates == q.args.start_date # "" \/ q.args.end_date # ""
            pulse == q.args.start_pulseid # 0 \/ q.args.end_pulseid # 0
        IN  /\ (dates /\ pulse)
               => /\ q.raised = CannotSpecifyBoth
                  /\ q.cfg.range = EmptyDict
                  /\ ~q.sent
            /\ (q.raised # CannotSpecifyBoth
                  /\ "startPulseId" \in DOMAIN q.cfg.range)
               => ~dates

====
